---- MODULE Spec2Model ----
(***************************************************************************)
(* Model of the SkyBlock Analytics read-only API (src/main.py,             *)
(* src/db/models.py, src/db/session.py).                                   *)
(*                                                                         *)
(* Conventions                                                             *)
(*   - instants and durations are whole hours (a datetime is the number of *)
(*     hours since an epoch, a timedelta a number of hours);               *)
(*   - an Optional value is a sequence: None is <<>>, a present value v is *)
(*     <<v>>;                                                              *)
(*   - prices and volumes are floats that hold whole numbers, so that the  *)
(*     float arithmetic of get_top is exact and is integer arithmetic;     *)
(*   - a quotient that is not whole (roi) is kept as an exact fraction     *)
(*     [num, den];                                                         *)
(*   - product ids are strings; their order (ORDER BY, sorted()) is the    *)
(*     position in ItemIds, which lists them in ascending string order.    *)
(***************************************************************************)
EXTENDS Integers, Sequences, FiniteSets, Bags, TLC

\* ------------------------------------------------------------------ bounds
\* the instant the clock shows in the initial state
Now0 == 10000
\* how many hours the clock may advance
MaxTicks == 1
\* rows of the bazaar table that are drawn freely (time-series family)
MaxRows == 2
\* rows of the bazaar table that are drawn freely (ranking family)
MaxFree == 1
\* timestamps 1..MaxTs of the freely drawn rows of the ranking family
MaxTs == 2
\* concurrent requests in the session-lifecycle specification
MaxReqs == 2

\* ------------------------------------------------------- program constants
CAPITAL == 1000000000
\* MARKET_SHARE = 0.10, kept as the fraction MARKET_SHARE_NUM / MARKET_SHARE_DEN
MARKET_SHARE_NUM == 1
MARKET_SHARE_DEN == 10
SCALING_FACTOR == 1
\* Query(..., ge=10, le=100) of get_top
TOP_GE == 10
TOP_LE == 100

\* ------------------------------------------------------------------ values
None == <<>>
Some(v) == <<v>>

Min(a, b) == IF a <= b THEN a ELSE b

Range(s) == {s[i] : i \in DOMAIN s}

\* All product ids of the model, in ascending string order.
ItemIds ==
  <<"I01", "I02", "I03", "I04", "I05", "I06", "I07", "I08", "I09", "I10",
    "N01", "N02", "N03", "N04", "Q", "S", "Z">>

ItemIndex(id) == CHOOSE i \in DOMAIN ItemIds : ItemIds[i] = id

\* Python / SQL string order on product ids
StrLess(a, b) == ItemIndex(a) < ItemIndex(b)

\* A bazaar payload (Bazaar.data, a JSON object): a key that is missing or
\* null reads as None.
Payload(sell, buy, vol) ==
  [sellPrice |-> sell, buyPrice |-> buy, sellMovingWeek |-> vol]

\* A row of the bazaar table; id is the autoincrement primary key.
BazaarRow(id, pid, ts, data) ==
  [id |-> id, product_id |-> pid, timestamp |-> ts, data |-> data]

\* ------------------------------------------------------------ range resolver
\* timedelta values of parse_range, in hours; a token that is not a key of the
\* dictionary, and "all", give None (dict.get)
parse_range(r) ==
  CASE r = "6months" -> Some(180 * 24)
    [] r = "2months" -> Some(60 * 24)
    [] r = "1week"   -> Some(7 * 24)
    [] r = "1day"    -> Some(24)
    [] r = "latest"  -> Some(2)
    [] r = "all"     -> None
    [] OTHER         -> None

\* mutant: the duration is added to `now`
StartOf_Plus(range, now) ==
  LET td == parse_range(range)
  IN  IF range = "all" \/ td = None THEN None ELSE Some(now + td[1])

\* start = None if range == 'all' or td is None else now - td
StartOf(range, now) ==
  LET td == parse_range(range)
  IN  IF range = "all" \/ td = None THEN None ELSE Some(now - td[1])

\* mutant: the lower bound is exclusive
apply_time_filters_Strict(q, start, end) ==
  LET q1 == IF start # None
            THEN SelectSeq(q, LAMBDA row : row.timestamp > start[1])
            ELSE q
  IN  IF end # None
      THEN SelectSeq(q1, LAMBDA row : row.timestamp <= end[1])
      ELSE q1

\* q.filter(field >= start) when start is set, q.filter(field <= end) when end
\* is set (a datetime is always truthy); q is the sequence of candidate rows
apply_time_filters(q, start, end) ==
  LET q1 == IF start # None
            THEN SelectSeq(q, LAMBDA row : row.timestamp >= start[1])
            ELSE q
  IN  IF end # None
      THEN SelectSeq(q1, LAMBDA row : row.timestamp <= end[1])
      ELSE q1

\* ------------------------------------------------------------- query helpers
\* a sequence without its i-th element
Without(rows, i) == SubSeq(rows, 1, i - 1) \o SubSeq(rows, i + 1, Len(rows))

RECURSIVE OrderByTimestamp(_)
\* ORDER BY timestamp (ascending): the orders in which the database may
\* return the rows, every arrangement that is non-decreasing in timestamp
\* (the order of rows with equal timestamps is the database's choice)
OrderByTimestamp(rows) ==
  IF rows = <<>> THEN {<<>>}
  ELSE UNION {{<<rows[i]>> \o t : t \in OrderByTimestamp(Without(rows, i))} :
                i \in {j \in DOMAIN rows :
                         \A k \in DOMAIN rows : rows[j].timestamp <= rows[k].timestamp}}

\* datetime.isoformat(): the instant as text, here its date part (days) and its
\* time part (hour of the day)
isoformat(ts) == <<ts \div 24, ts % 24>>

\* HTTPException(404, f"No bazaar data for item {item_id}")
NotFound(item_id) ==
  [status |-> 404, detail |-> <<"No bazaar data for item", item_id>>, body |-> <<>>]

Ok(body) == [status |-> 200, detail |-> <<>>, body |-> body]

\* an exception of the database driver that no handler catches
ServerError == [status |-> 500, detail |-> <<"Internal Server Error">>, body |-> <<>>]

NoResponse == [status |-> 0, detail |-> <<>>, body |-> <<>>]

\* rows of get_prices: (timestamp, data) of the item's rows in the window,
\* ordered by timestamp; the set of results the database may return
PriceRows(bazaar, item_id, start, now) ==
  OrderByTimestamp(
    apply_time_filters(
      SelectSeq(bazaar, LAMBDA row : row.product_id = item_id),
      start, Some(now)))

\* mutant: an empty result is returned as an empty list
get_prices_result_EmptyOk(item_id, rows) ==
  Ok([i \in DOMAIN rows |->
        [timestamp |-> isoformat(rows[i].timestamp), data |-> rows[i].data]])

\* get_prices from `if not rows` on, for the rows the query returned
get_prices_result(item_id, rows) ==
  IF rows = <<>>
  THEN NotFound(item_id)
  ELSE Ok([i \in DOMAIN rows |->
             [timestamp |-> isoformat(rows[i].timestamp), data |-> rows[i].data]])

\* mutant: the oldest row of the product (ascending order)
LatestOf_Oldest(bazaar, item_id) ==
  {i \in DOMAIN bazaar :
     /\ bazaar[i].product_id = item_id
     /\ \A j \in DOMAIN bazaar :
          bazaar[j].product_id = item_id => bazaar[j].timestamp >= bazaar[i].timestamp}

\* body of get_bazaar_sold: the payload of the newest row of the item
\* (ORDER BY timestamp DESC, first()); `pick` is the row the database returns
\* first, one of the rows with the greatest timestamp
LatestOf(bazaar, item_id) ==
  {i \in DOMAIN bazaar :
     /\ bazaar[i].product_id = item_id
     /\ \A j \in DOMAIN bazaar :
          bazaar[j].product_id = item_id => bazaar[j].timestamp <= bazaar[i].timestamp}

get_bazaar_sold_result(bazaar, item_id, pick) ==
  IF pick = 0 THEN NotFound(item_id) ELSE Ok(<<bazaar[pick].data>>)

\* rows of get_elections: the elections in the window, ordered by timestamp;
\* the set of results the database may return
ElectionRows(elections, start, now) ==
  OrderByTimestamp(apply_time_filters(elections, start, Some(now)))

\* the return value of get_elections for the rows the query returned
get_elections_result(rows) ==
  Ok([i \in DOMAIN rows |->
        [year |-> rows[i].year, mayor |-> rows[i].mayor,
         timestamp |-> isoformat(rows[i].timestamp)]])

RECURSIVE SortedIds(_)
\* sorted(set of ids): ascending string order
SortedIds(ids) ==
  IF ids = {} THEN <<>>
  ELSE LET m == CHOOSE a \in ids : \A b \in ids : a = b \/ StrLess(a, b)
       IN  <<m>> \o SortedIds(ids \ {m})

\* body of list_items: the distinct product ids of the bazaar table, sorted
list_items_result(db) ==
  Ok(SortedIds({db.bazaar[i].product_id : i \in DOMAIN db.bazaar}))

\* ------------------------------------------------------------------ ranking
\* Python truthiness of an Optional[float]: None and 0.0 are false
Truthy(x) == x # None /\ x[1] # 0

\* int(x) of the float num / den, den > 0: truncation towards zero
IntTrunc(num, den) ==
  IF num >= 0 THEN num \div den ELSE -((-num) \div den)

\* The rows a DISTINCT ON (product_id) ... ORDER BY product_id, timestamp DESC
\* query may keep: for every product id of the table one row whose timestamp
\* is the greatest of that product (which of several such rows is kept is the
\* database's choice). A choice maps each product id to the index of its row.
RECURSIVE ChoicesOver(_, _)
ChoicesOver(bazaar, ids) ==
  IF ids = {} THEN {<<>>}
  ELSE LET id == CHOOSE a \in ids : TRUE
       IN  {(id :> i) @@ f : i \in LatestOf(bazaar, id),
                             f \in ChoicesOver(bazaar, ids \ {id})}

LatestChoices(bazaar) ==
  ChoicesOver(bazaar, {bazaar[i].product_id : i \in DOMAIN bazaar})

\* The projected columns of one kept row
Projected(row) ==
  [item_id       |-> row.product_id,
   sell_price    |-> row.data.sellPrice,
   buy_price     |-> row.data.buyPrice,
   weekly_volume |-> row.data.sellMovingWeek]

\* rows = db.query(subq).all() for one choice of the database: one projected
\* row per product id, in product id order
LatestRows(bazaar, choice) ==
  LET ids == SortedIds(DOMAIN choice)
  IN  [k \in DOMAIN ids |-> Projected(bazaar[choice[ids[k]]])]

\* mutant: truthiness only, the sign of the prices is not tested
SaneRow_TruthyOnly(row) ==
  /\ Truthy(row.sell_price)
  /\ Truthy(row.buy_price)
  /\ Truthy(row.weekly_volume)

\* a) the test that lets a row through to the spread computation
SaneRow(row) ==
  /\ Truthy(row.sell_price)
  /\ Truthy(row.buy_price)
  /\ Truthy(row.weekly_volume)
  /\ row.sell_price[1] > 0
  /\ row.buy_price[1] > 0

cap_by_money(buy_p) == CAPITAL \div buy_p

\* mutant: the market cap is rounded up
cap_by_market_RoundUp(vol_w) ==
  (MARKET_SHARE_NUM * vol_w + MARKET_SHARE_DEN - 1) \div MARKET_SHARE_DEN

cap_by_market(vol_w) == IntTrunc(MARKET_SHARE_NUM * vol_w, MARKET_SHARE_DEN)

units_max(buy_p, vol_w) == Min(cap_by_money(buy_p), cap_by_market(vol_w))

\* d) profit; the division by SCALING_FACTOR = 1 is exact
profit_of(spread, units) == (spread * units) \div SCALING_FACTOR

\* roi = profit / CAPITAL, as an exact fraction
roi_of(profit) == [num |-> profit, den |-> CAPITAL]

\* One pass of the scoring loop: None when the row is skipped (continue),
\* else the dictionary appended to `scored`
Score(row) ==
  IF ~SaneRow(row) THEN None
  ELSE LET sell_p == row.sell_price[1]
           buy_p  == row.buy_price[1]
           vol_w  == row.weekly_volume[1]
           spread == buy_p - sell_p
       IN  IF spread <= 0 THEN None
           ELSE LET units == units_max(buy_p, vol_w)
                IN  IF units < 1 THEN None
                    ELSE LET profit == profit_of(spread, units)
                         IN  Some([item_id         |-> row.item_id,
                                   sell_price      |-> sell_p,
                                   buy_price       |-> buy_p,
                                   weekly_volume   |-> vol_w,
                                   spread          |-> spread,
                                   max_units       |-> units,
                                   profit_estimate |-> profit,
                                   roi             |-> roi_of(profit)])

RECURSIVE ScoreAll(_)
\* the scoring loop over rows, in order
ScoreAll(rows) ==
  IF rows = <<>> THEN <<>>
  ELSE ScoreAll(SubSeq(rows, 1, Len(rows) - 1)) \o Score(rows[Len(rows)])

RECURSIVE SortByProfitDesc_Ascending(_)
\* mutant: reverse=True is missing
SortByProfitDesc_Ascending(scored) ==
  IF scored = <<>> THEN <<>>
  ELSE LET n    == Len(scored)
           x    == scored[n]
           head == SortByProfitDesc_Ascending(SubSeq(scored, 1, n - 1))
           k    == Cardinality({i \in DOMAIN head :
                                  head[i].profit_estimate <= x.profit_estimate})
       IN  SubSeq(head, 1, k) \o <<x>> \o SubSeq(head, k + 1, Len(head))

RECURSIVE SortByProfitDesc(_)
\* scored.sort(key=profit_estimate, reverse=True): descending and stable
SortByProfitDesc(scored) ==
  IF scored = <<>> THEN <<>>
  ELSE LET n    == Len(scored)
           x    == scored[n]
           head == SortByProfitDesc(SubSeq(scored, 1, n - 1))
           k    == Cardinality({i \in DOMAIN head :
                                  head[i].profit_estimate >= x.profit_estimate})
       IN  SubSeq(head, 1, k) \o <<x>> \o SubSeq(head, k + 1, Len(head))

\* scored[:top]
Truncate(scored, top) == SubSeq(scored, 1, Min(top, Len(scored)))

\* body of get_top for one choice of the latest rows
get_top_result(bazaar, choice, top) ==
  Ok(Truncate(SortByProfitDesc(ScoreAll(LatestRows(bazaar, choice))), top))

\* ------------------------------------------------------------ module loading
\* The statements of main.py that create, configure or rebind `app`, in file
\* order. An application object is [routes, middleware]; `app` is the index
\* of the object the module name is bound to (0: unbound).
ModuleStmts ==
  << [op |-> "new"],
     [op |-> "add_middleware", allow_methods |-> {"GET", "OPTIONS"}],
     [op |-> "route", path |-> "/prices/{item_id}", handler |-> "get_prices"],
     [op |-> "route", path |-> "/sold/{item_id}",   handler |-> "get_bazaar_sold"],
     [op |-> "new"],
     [op |-> "route", path |-> "/top",       handler |-> "get_top"],
     [op |-> "route", path |-> "/elections", handler |-> "get_elections"],
     [op |-> "route", path |-> "/items",     handler |-> "list_items"] >>

EmptyModule == [app |-> 0, apps |-> <<>>]

\* app = FastAPI(...): a fresh object, and the name now refers to it
NewApp(m) ==
  [app |-> Len(m.apps) + 1, apps |-> Append(m.apps, [routes |-> {}, middleware |-> {}])]

\* app.add_middleware(CORSMiddleware, ..., allow_methods=[...])
AddMiddleware(m, methods) ==
  [m EXCEPT !.apps[m.app].middleware = @ \cup {[cls |-> "CORSMiddleware", allow_methods |-> methods]}]

\* @app.get(path) on the object the name refers to when the decorator runs
AddRoute(m, path, handler) ==
  [m EXCEPT !.apps[m.app].routes = @ \cup {[path |-> path, handler |-> handler]}]

ExecStmt(m, st) ==
  CASE st.op = "new"            -> NewApp(m)
    [] st.op = "add_middleware" -> AddMiddleware(m, st.allow_methods)
    [] st.op = "route"          -> AddRoute(m, st.path, st.handler)

RECURSIVE ModuleAfter(_)
\* the module state after its first k statements
ModuleAfter(k) == IF k = 0 THEN EmptyModule ELSE ExecStmt(ModuleAfter(k - 1), ModuleStmts[k])

\* the handler the served application has for a path, None when it has none
RouteOf(m, path) ==
  LET hs == {r.handler : r \in {x \in m.apps[m.app].routes : x.path = path}}
  IN  IF hs = {} THEN None ELSE Some(CHOOSE h \in hs : TRUE)

\* the framework's answer to a path no route matches
RouteNotFound == [status |-> 404, detail |-> <<"Not Found">>, body |-> <<>>]

\* ------------------------------------------------------------ database states
Elections ==
  << [year |-> 3, mayor |-> "Cole",  timestamp |-> Now0 - 2],
     [year |-> 1, mayor |-> "Diana", timestamp |-> Now0 - 4320],
     [year |-> 4, mayor |-> "Paul",  timestamp |-> Now0 + 1],
     [year |-> 2, mayor |-> "Aatrox", timestamp |-> Now0 - 168] >>

Database(bazaar, sold, lb, fire) ==
  [bazaar |-> bazaar, elections |-> Elections,
   auctions_sold |-> sold, auctions_lb |-> lb, firesales |-> fire]

\* sequences of at most n elements of S
SeqsUpTo(S, n) == UNION {[1..k -> S] : k \in 0..n}

\* Time-series family: up to MaxRows bazaar rows of two products, with
\* timestamps on the edges of every window of parse_range, and one hour ahead
\* of the initial clock.
PriceGrid ==
  {Now0 - 4320, Now0 - 1440, Now0 - 168, Now0 - 24, Now0 - 2, Now0 + 1}

PriceTables ==
  {[i \in DOMAIN s |->
      BazaarRow(i, s[i][1], s[i][2], Payload(Some(10 + i), Some(12 + i), Some(1000)))] :
     s \in SeqsUpTo({"I01", "Z"} \X PriceGrid, MaxRows)}

PriceDbs == {Database(t, {}, {}, {}) : t \in PriceTables}

\* Ranking family: fourteen fixed rows with timestamp 1 (ten products that
\* survive every discard, four that never do), then up to MaxFree rows of the
\* products I01 and Z with timestamps 1..MaxTs, so that a newer or equally
\* old snapshot can replace the fixed one of I01.
TopFixed ==
  << <<"I01", Payload(Some(10),   Some(12),         Some(1000))>>,
     <<"I02", Payload(Some(100),  Some(150),        Some(500))>>,
     <<"I03", Payload(Some(10),   Some(500000000),  Some(1000))>>,
     <<"I04", Payload(Some(1),    Some(3),          Some(1000))>>,
     <<"I05", Payload(Some(5),    Some(6),          Some(10))>>,
     <<"I06", Payload(Some(20),   Some(30),         Some(40))>>,
     <<"I07", Payload(Some(7),    Some(9),          Some(25))>>,
     <<"I08", Payload(Some(1000), Some(1100),       Some(300))>>,
     <<"I09", Payload(Some(50),   Some(1000000000), Some(90))>>,
     <<"I10", Payload(Some(3),    Some(4),          Some(100))>>,
     <<"N01", Payload(Some(10),   Some(12),         None)>>,
     <<"N02", Payload(Some(0),    Some(12),         Some(1000))>>,
     <<"N03", Payload(Some(12),   Some(12),         Some(1000))>>,
     <<"N04", Payload(Some(10),   Some(-5),         Some(1000))>> >>

TopPalette(pid) ==
  IF pid = "I01"
  THEN {Payload(Some(10), Some(14), Some(1000)),
        Payload(None,     Some(12), Some(1000)),
        Payload(Some(8),  Some(5),  Some(1000)),
        Payload(Some(10), Some(12), Some(-1000)),
        Payload(Some(10), Some(12), Some(0)),
        Payload(Some(10), Some(12), Some(5))}
  ELSE {Payload(Some(40), Some(45),         Some(2000)),
        Payload(Some(5),  Some(6),          Some(10)),
        Payload(Some(10), None,             Some(1000)),
        Payload(Some(10), Some(2000000000), Some(1000)),
        Payload(Some(-1), Some(12),         Some(1000))}

TopFreeRows ==
  UNION {{<<pid, ts, d>> : ts \in 1..MaxTs, d \in TopPalette(pid)} : pid \in {"I01", "Z"}}

TopTables ==
  {[i \in 1..(Len(TopFixed) + Len(s)) |->
      IF i <= Len(TopFixed)
      THEN BazaarRow(i, TopFixed[i][1], 1, TopFixed[i][2])
      ELSE BazaarRow(i, s[i - Len(TopFixed)][1], s[i - Len(TopFixed)][2],
                     s[i - Len(TopFixed)][3])] :
     s \in SeqsUpTo(TopFreeRows, MaxFree)}

TopDbs == {Database(t, {}, {}, {}) : t \in TopTables}

\* Small family for the served application and the session lifecycle: a
\* bazaar table of at most one product, and auction and firesale tables that
\* are empty or hold products, one of which the bazaar table lacks.
SmallTables ==
  { <<>>,
    << BazaarRow(1, "I01", Now0 - 24, Payload(Some(10), Some(12), Some(1000))),
       BazaarRow(2, "I01", Now0 - 2,  Payload(Some(11), Some(13), Some(1000))) >> }

SmallDbs ==
  {Database(t, o[1], o[2], o[3]) :
     t \in SmallTables, o \in {<<{}, {}, {}>>, <<{"I01", "S"}, {"S"}, {"Z"}>>}}

\* --------------------------------------------------------------------- state
VARIABLES
  db,        \* the tables: bazaar, elections, auctions_sold, auctions_lb, firesales
  clock,     \* datetime.now(timezone.utc)
  loaded,    \* how many statements of ModuleStmts have run
  module,    \* [app, apps]: the binding of `app` and the application objects
  sessions,  \* every session SessionLocal() has made: [state, closes]
  req        \* the requests: position, parameters, locals, response

vars == <<db, clock, loaded, module, sessions, req>>

Idle ==
  [pc |-> "idle", handler |-> "", item_id |-> "", range |-> "", top |-> 0,
   db |-> 0, now |-> None, start |-> None, response |-> NoResponse]

\* the vocabulary of range tokens, and one token outside it
Tokens == {"all", "6months", "2months", "1week", "1day", "1hour", "latest", "1year"}

TopChoices == {TOP_GE, TOP_GE + 1, TOP_LE}

InitCommon ==
  /\ clock = Now0
  /\ sessions = <<>>
  /\ loaded = Len(ModuleStmts)
  /\ module = ModuleAfter(Len(ModuleStmts))

\* time series over the time-series family, one request
Init ==
  /\ InitCommon
  /\ db \in PriceDbs
  /\ req = [r \in 1..1 |-> Idle]

\* ranking over the ranking family, one request
InitTop ==
  /\ InitCommon
  /\ db \in TopDbs
  /\ req = [r \in 1..1 |-> Idle]

\* every handler, called directly, MaxReqs requests at a time
InitSession ==
  /\ InitCommon
  /\ db \in SmallDbs
  /\ req = [r \in 1..MaxReqs |-> Idle]

\* the module is loaded statement by statement, then `app` is served
InitLoad ==
  /\ clock = Now0
  /\ sessions = <<>>
  /\ loaded = 0
  /\ module = EmptyModule
  /\ db \in SmallDbs
  /\ req = [r \in 1..1 |-> Idle]

\* ------------------------------------------------------------------- actions
\* get_db up to its yield: SessionLocal() makes a session, which is open
OpenSession(ss) == Append(ss, [state |-> "open", closes |-> 0])

\* db.close()
CloseSession(ss, i) == [ss EXCEPT ![i] = [state |-> "closed", closes |-> @.closes + 1]]

\* mutant: no try/finally, the session is closed after a normal return only
ExitSessions_NoFinally(ss, i, response) ==
  IF response.status = 200 THEN CloseSession(ss, i) ELSE ss

\* get_db after its yield: the finally clause runs whatever the handler did
\* (`response` is the handler's return value, or the exception it raised)
ExitSessions(ss, i, response) == CloseSession(ss, i)

\* A request reaches a handler: the framework binds the parameters and
\* resolves Depends(get_db).
Request(r, handler, item_id, range, top) ==
  /\ req[r].pc = "idle"
  /\ sessions' = OpenSession(sessions)
  /\ req' = [req EXCEPT ![r] =
               [Idle EXCEPT !.pc = "handler", !.handler = handler, !.item_id = item_id,
                            !.range = range, !.top = top, !.db = Len(sessions) + 1]]
  /\ UNCHANGED <<db, clock, loaded, module>>

\* the handler's frame after it returned or raised
Returned(q, now, start, response) ==
  [q EXCEPT !.pc = "exit", !.now = now, !.start = start, !.response = response]

get_prices(r) ==
  /\ req[r].pc = "handler"
  /\ req[r].handler = "get_prices"
  /\ \E rows \in PriceRows(db.bazaar, req[r].item_id, StartOf(req[r].range, clock), clock) :
       req' = [req EXCEPT ![r] =
                 Returned(@, Some(clock), StartOf(@.range, clock),
                          get_prices_result(@.item_id, rows))]
  /\ UNCHANGED <<db, clock, loaded, module, sessions>>

get_bazaar_sold(r) ==
  /\ req[r].pc = "handler"
  /\ req[r].handler = "get_bazaar_sold"
  /\ \E pick \in (IF LatestOf(db.bazaar, req[r].item_id) = {}
                  THEN {0} ELSE LatestOf(db.bazaar, req[r].item_id)) :
       req' = [req EXCEPT ![r] =
                 Returned(@, None, None, get_bazaar_sold_result(db.bazaar, @.item_id, pick))]
  /\ UNCHANGED <<db, clock, loaded, module, sessions>>

get_top(r) ==
  /\ req[r].pc = "handler"
  /\ req[r].handler = "get_top"
  /\ \E choice \in LatestChoices(db.bazaar) :
       req' = [req EXCEPT ![r] =
                 Returned(@, None, None, get_top_result(db.bazaar, choice, @.top))]
  /\ UNCHANGED <<db, clock, loaded, module, sessions>>

get_elections(r) ==
  /\ req[r].pc = "handler"
  /\ req[r].handler = "get_elections"
  /\ \E rows \in ElectionRows(db.elections, StartOf(req[r].range, clock), clock) :
       req' = [req EXCEPT ![r] =
                 Returned(@, Some(clock), StartOf(@.range, clock),
                          get_elections_result(rows))]
  /\ UNCHANGED <<db, clock, loaded, module, sessions>>

list_items(r) ==
  /\ req[r].pc = "handler"
  /\ req[r].handler = "list_items"
  /\ req' = [req EXCEPT ![r] = Returned(@, None, None, list_items_result(db))]
  /\ UNCHANGED <<db, clock, loaded, module, sessions>>

\* a query fails: the driver's exception leaves the handler uncaught. In
\* get_prices and get_elections the query runs after `now` and `start` were
\* assigned; the other handlers have no such locals.
QueryFails(r) ==
  /\ req[r].pc = "handler"
  /\ req' = [req EXCEPT ![r] =
               IF @.handler \in {"get_prices", "get_elections"}
               THEN Returned(@, Some(clock), StartOf(@.range, clock), ServerError)
               ELSE Returned(@, None, None, ServerError)]
  /\ UNCHANGED <<db, clock, loaded, module, sessions>>

\* get_db resumes after the handler: finally: db.close()
get_db_finally(r) ==
  /\ req[r].pc = "exit"
  /\ sessions' = ExitSessions(sessions, req[r].db, req[r].response)
  /\ req' = [req EXCEPT ![r].pc = "done"]
  /\ UNCHANGED <<db, clock, loaded, module>>

\* time passes
Tick ==
  /\ clock < Now0 + MaxTicks
  /\ clock' = clock + 1
  /\ UNCHANGED <<db, loaded, module, sessions, req>>

\* the interpreter runs the next statement of main.py
LoadStmt ==
  /\ loaded < Len(ModuleStmts)
  /\ loaded' = loaded + 1
  /\ module' = ExecStmt(module, ModuleStmts[loaded + 1])
  /\ UNCHANGED <<db, clock, sessions, req>>

\* the path template of a handler's route in main.py
Paths == {"/prices/{item_id}", "/sold/{item_id}", "/top", "/elections", "/items"}

\* An HTTP GET arrives at the served application, the object `app` names once
\* the module is loaded: the handler of the matching route runs, and a path
\* without a route is answered 404 by the framework.
Dispatch(r, path, item_id, range, top) ==
  /\ loaded = Len(ModuleStmts)
  /\ IF RouteOf(module, path) = None
     THEN /\ req[r].pc = "idle"
          /\ req' = [req EXCEPT ![r] =
                       [Idle EXCEPT !.pc = "done", !.item_id = item_id, !.range = range,
                                    !.top = top, !.response = RouteNotFound]]
          /\ UNCHANGED <<db, clock, loaded, module, sessions>>
     ELSE Request(r, RouteOf(module, path)[1], item_id, range, top)

\* ------------------------------------------------------------ specifications
RequestPrices(r) ==
  \E item_id \in {"I01", "Q"}, range \in Tokens : Request(r, "get_prices", item_id, range, 0)

RequestElections(r) ==
  \E range \in Tokens : Request(r, "get_elections", "", range, 0)

RequestTop(r) ==
  \E top \in TopChoices : Request(r, "get_top", "", "", top)

RequestAny(r) ==
  \/ \E item_id \in {"I01", "Q"} : Request(r, "get_prices", item_id, "1day", 0)
  \/ Request(r, "get_bazaar_sold", "I01", "", 0)
  \/ Request(r, "get_top", "", "", TOP_GE)
  \/ Request(r, "get_elections", "", "1week", 0)
  \/ Request(r, "list_items", "", "", 0)

HttpGet(r) ==
  \/ \E item_id \in {"I01", "Q"}, range \in {"1day", "all"} :
       Dispatch(r, "/prices/{item_id}", item_id, range, 0)
  \/ \E item_id \in {"I01", "Q"} : Dispatch(r, "/sold/{item_id}", item_id, "", 0)
  \/ \E top \in TopChoices : Dispatch(r, "/top", "", "", top)
  \/ \E range \in Tokens : Dispatch(r, "/elections", "", range, 0)
  \/ Dispatch(r, "/items", "", "", 0)

Next ==
  \/ Tick
  \/ \E r \in DOMAIN req : RequestPrices(r)
  \/ \E r \in DOMAIN req : RequestElections(r)
  \/ \E r \in DOMAIN req : get_prices(r)
  \/ \E r \in DOMAIN req : get_elections(r)
  \/ \E r \in DOMAIN req : get_db_finally(r)

Spec == Init /\ [][Next]_vars

NextTop ==
  \/ \E r \in DOMAIN req : RequestTop(r)
  \/ \E r \in DOMAIN req : get_top(r)
  \/ \E r \in DOMAIN req : get_db_finally(r)

SpecTop == InitTop /\ [][NextTop]_vars

NextSession ==
  \/ \E r \in DOMAIN req : RequestAny(r)
  \/ \E r \in DOMAIN req : get_prices(r)
  \/ \E r \in DOMAIN req : get_bazaar_sold(r)
  \/ \E r \in DOMAIN req : get_top(r)
  \/ \E r \in DOMAIN req : get_elections(r)
  \/ \E r \in DOMAIN req : list_items(r)
  \/ \E r \in DOMAIN req : QueryFails(r)
  \/ \E r \in DOMAIN req : get_db_finally(r)

SpecSession == InitSession /\ [][NextSession]_vars

NextLoad ==
  \/ LoadStmt
  \/ \E r \in DOMAIN req : HttpGet(r)
  \/ \E r \in DOMAIN req : get_top(r)
  \/ \E r \in DOMAIN req : get_elections(r)
  \/ \E r \in DOMAIN req : list_items(r)
  \/ \E r \in DOMAIN req : QueryFails(r)
  \/ \E r \in DOMAIN req : get_db_finally(r)

SpecLoad == InitLoad /\ [][NextLoad]_vars

\* -------------------------------------------------------------------- claims
\* requests whose handler has returned or raised
Finished(r, handler) ==
  /\ req[r].pc \in {"exit", "done"}
  /\ req[r].handler = handler

\* the bag of the elements of a sequence
BagOf(seq) == [x \in Range(seq) |-> Cardinality({i \in DOMAIN seq : seq[i] = x})]

\* order of two isoformat texts
IsoLeq(a, b) == a[1] < b[1] \/ (a[1] = b[1] /\ a[2] <= b[2])

\* the window lengths the range tokens stand for, in hours
WindowHours(range) ==
  CASE range = "6months" -> 4320
    [] range = "2months" -> 1440
    [] range = "1week"   -> 168
    [] range = "1day"    -> 24
    [] range = "latest"  -> 2

Windowed == {"6months", "2months", "1week", "1day", "latest"}

\* a bazaar row lies in the window of a request that read the clock at `now`
InWindow(row, item_id, range, now) ==
  /\ row.product_id = item_id
  /\ row.timestamp <= now
  /\ range \in Windowed => row.timestamp >= now - WindowHours(range)

\* the rows of a product with the greatest timestamp of that product
MaxRows_(bazaar, id) ==
  {i \in DOMAIN bazaar :
     /\ bazaar[i].product_id = id
     /\ ~ \E j \in DOMAIN bazaar :
            bazaar[j].product_id = id /\ bazaar[j].timestamp > bazaar[i].timestamp}

\* a payload with all three figures present and positive and a positive spread
Tradeable(d) ==
  /\ d.sellPrice # None /\ d.buyPrice # None /\ d.sellMovingWeek # None
  /\ d.sellPrice[1] > 0 /\ d.buyPrice[1] > 0 /\ d.sellMovingWeek[1] > 0
  /\ d.buyPrice[1] - d.sellPrice[1] > 0

\* C1: a session made for a request is open, and never closed, while the
\* handler runs or has just returned or raised; once the request is completed
\* (return, 404 or server error) its session is closed and was closed exactly
\* once; no session outlives its request.
C1_SessionClosedOnce ==
  /\ \A r \in DOMAIN req :
       /\ req[r].pc \in {"handler", "exit"} =>
            sessions[req[r].db] = [state |-> "open", closes |-> 0]
       /\ (req[r].pc = "done" /\ req[r].db # 0) =>
            sessions[req[r].db] = [state |-> "closed", closes |-> 1]
  /\ \A i \in DOMAIN sessions :
       (~ \E r \in DOMAIN req : req[r].pc \in {"handler", "exit"} /\ req[r].db = i) =>
         sessions[i] = [state |-> "closed", closes |-> 1]

\* one request ended in a 404 raised by its handler and another in a server
\* error; both are completed and the session of each was closed once
C1_Witness ==
  \E r1, r2 \in DOMAIN req :
    /\ req[r1].pc = "done" /\ req[r1].response.status = 404
    /\ req[r2].pc = "done" /\ req[r2].response.status = 500
    /\ req[r1].db # req[r2].db
    /\ sessions[req[r1].db].closes = 1
    /\ sessions[req[r2].db].closes = 1

\* C2: get_top answers 200 and every entity it returns has a latest snapshot
\* whose sell price, buy price and weekly volume are present and positive and
\* whose spread buy - sell is positive.
C2_NoDegenerateEntry ==
  \A r \in DOMAIN req :
    Finished(r, "get_top") =>
      /\ req[r].response.status = 200
      /\ \A k \in DOMAIN req[r].response.body :
           \E i \in MaxRows_(db.bazaar, req[r].response.body[k].item_id) :
             Tradeable(db.bazaar[i].data)

\* the product I01 had a tradeable snapshot, its latest one is not, and the
\* ranking left it out
C2_Witness ==
  \E r \in DOMAIN req :
    /\ Finished(r, "get_top")
    /\ \E i \in DOMAIN db.bazaar :
         db.bazaar[i].product_id = "I01" /\ db.bazaar[i].timestamp > 1
    /\ \A i \in MaxRows_(db.bazaar, "I01") :
         db.bazaar[i].data.buyPrice = Some(5) /\ db.bazaar[i].data.sellPrice = Some(8)
    /\ \A k \in DOMAIN req[r].response.body : req[r].response.body[k].item_id # "I01"
    /\ Len(req[r].response.body) >= 9

\* C3: every entry of get_top has spread = buy - sell, max_units the smaller
\* of floor(CAPITAL / buy) and floor(MARKET_SHARE * volume) and at least 1,
\* profit_estimate = spread * max_units / SCALING_FACTOR and
\* roi = profit_estimate / CAPITAL; sell 10, buy 12, volume 1000 give 100
\* units and a profit of 200.
C3_EntryArithmetic ==
  \A r \in DOMAIN req :
    Finished(r, "get_top") =>
      \A k \in DOMAIN req[r].response.body :
        LET e == req[r].response.body[k]
        IN  /\ e.spread = e.buy_price - e.sell_price
            /\ LET a == CAPITAL \div e.buy_price
                   b == (e.weekly_volume * MARKET_SHARE_NUM) \div MARKET_SHARE_DEN
               IN  e.max_units = (IF a <= b THEN a ELSE b)
            /\ e.max_units >= 1
            /\ e.profit_estimate * SCALING_FACTOR = e.spread * e.max_units
            /\ e.roi = [num |-> e.profit_estimate, den |-> CAPITAL]
            /\ (e.sell_price = 10 /\ e.buy_price = 12 /\ e.weekly_volume = 1000) =>
                 (e.max_units = 100 /\ e.profit_estimate = 200)

\* an entry capped by the market share (the example of the claim) and an entry
\* capped by the capital are both returned
C3_Witness ==
  \E r \in DOMAIN req :
    /\ Finished(r, "get_top")
    /\ \E k \in DOMAIN req[r].response.body :
         LET e == req[r].response.body[k]
         IN  e.sell_price = 10 /\ e.buy_price = 12 /\ e.weekly_volume = 1000
             /\ e.profit_estimate = 200
    /\ \E k \in DOMAIN req[r].response.body :
         LET e == req[r].response.body[k]
         IN  e.max_units = CAPITAL \div e.buy_price
             /\ e.max_units < (e.weekly_volume * MARKET_SHARE_NUM) \div MARKET_SHARE_DEN

\* the entities that survive the discards, for one choice of the latest rows
Survivors(bazaar, choice) ==
  LET rows == LatestRows(bazaar, choice)
  IN  {Score(rows[k])[1] : k \in {j \in DOMAIN rows : Score(rows[j]) # None}}

\* C4: the list get_top returns is in non-increasing order of
\* profit_estimate, holds min(top, number of surviving entities) of the
\* surviving entities, each once, and no surviving entity that is left out
\* has a larger profit_estimate than a returned one.
C4_TopNByProfit ==
  \A r \in DOMAIN req :
    Finished(r, "get_top") =>
      LET body == req[r].response.body
      IN  /\ req[r].top \in TOP_GE..TOP_LE
          /\ \A k \in 1..(Len(body) - 1) :
               body[k].profit_estimate >= body[k + 1].profit_estimate
          /\ \E choice \in LatestChoices(db.bazaar) :
               LET S == Survivors(db.bazaar, choice)
               IN  /\ Range(body) \subseteq S
                   /\ Cardinality(Range(body)) = Len(body)
                   /\ Len(body) = (IF req[r].top <= Cardinality(S)
                                   THEN req[r].top ELSE Cardinality(S))
                   /\ \A s \in S \ Range(body) : \A k \in DOMAIN body :
                        s.profit_estimate <= body[k].profit_estimate

\* eleven entities survive and top = 10 cuts the least profitable one off
C4_Witness ==
  \E r \in DOMAIN req :
    /\ Finished(r, "get_top")
    /\ req[r].top = 10
    /\ Len(req[r].response.body) = 10
    /\ \E choice \in LatestChoices(db.bazaar) :
         Cardinality(Survivors(db.bazaar, choice)) = 11
    /\ \E k \in 1..9 :
         req[r].response.body[k].profit_estimate = req[r].response.body[k + 1].profit_estimate

\* C5: the latest-snapshot step yields one row per product id of the bazaar
\* table, with the figures of a snapshot of that product whose timestamp is
\* the greatest of the product; no item_id is twice in the result of get_top,
\* and the figures of every entry are those of such a snapshot.
C5_LatestSnapshotOnly ==
  /\ \A choice \in LatestChoices(db.bazaar) :
       LET rows == LatestRows(db.bazaar, choice)
           ids  == {db.bazaar[i].product_id : i \in DOMAIN db.bazaar}
       IN  /\ Len(rows) = Cardinality(ids)
           /\ {rows[k].item_id : k \in DOMAIN rows} = ids
           /\ \A k \in DOMAIN rows :
                \E i \in MaxRows_(db.bazaar, rows[k].item_id) :
                  /\ rows[k].sell_price = db.bazaar[i].data.sellPrice
                  /\ rows[k].buy_price = db.bazaar[i].data.buyPrice
                  /\ rows[k].weekly_volume = db.bazaar[i].data.sellMovingWeek
  /\ \A r \in DOMAIN req :
       Finished(r, "get_top") =>
         LET body == req[r].response.body
         IN  /\ \A k, l \in DOMAIN body : body[k].item_id = body[l].item_id => k = l
             /\ \A k \in DOMAIN body :
                  \E i \in MaxRows_(db.bazaar, body[k].item_id) :
                    /\ Some(body[k].sell_price) = db.bazaar[i].data.sellPrice
                    /\ Some(body[k].buy_price) = db.bazaar[i].data.buyPrice
                    /\ Some(body[k].weekly_volume) = db.bazaar[i].data.sellMovingWeek

\* product I01 has an older tradeable snapshot and a newer tradeable one, and
\* the entry of I01 shows the newer
C5_Witness ==
  \E r \in DOMAIN req :
    /\ Finished(r, "get_top")
    /\ \E i, j \in DOMAIN db.bazaar :
         /\ db.bazaar[i].product_id = "I01" /\ db.bazaar[j].product_id = "I01"
         /\ db.bazaar[i].timestamp < db.bazaar[j].timestamp
         /\ Tradeable(db.bazaar[i].data) /\ Tradeable(db.bazaar[j].data)
         /\ db.bazaar[i].data # db.bazaar[j].data
         /\ \E k \in DOMAIN req[r].response.body :
              /\ req[r].response.body[k].item_id = "I01"
              /\ Some(req[r].response.body[k].buy_price) = db.bazaar[j].data.buyPrice

\* C6 as stated: for every token of the vocabulary but "all" the handlers
\* get_prices and get_elections have a lower bound start = now - d, d the
\* duration parse_range returns; for "all" they have none.
C6_EveryTokenHasDuration ==
  \A r \in DOMAIN req :
    (Finished(r, "get_prices") \/ Finished(r, "get_elections")) =>
      /\ req[r].range \in {"6months", "2months", "1week", "1day", "1hour", "latest"} =>
           /\ parse_range(req[r].range) # None
           /\ req[r].start = Some(req[r].now[1] - parse_range(req[r].range)[1])
      /\ req[r].range = "all" => req[r].start = None

\* C6 amended: for the tokens 6months, 2months, 1week, 1day and latest the
\* handlers get_prices and get_elections have the lower bound start = now - d
\* with d = 180 days, 60 days, 7 days, 1 day and 2 hours; for "all", and for
\* "1hour", which parse_range does not know, they have no lower bound.
C6_KnownTokensHaveDuration ==
  \A r \in DOMAIN req :
    (Finished(r, "get_prices") \/ Finished(r, "get_elections")) =>
      /\ req[r].now # None
      /\ req[r].range \in Windowed =>
           req[r].start = Some(req[r].now[1] - WindowHours(req[r].range))
      /\ req[r].range \in {"all", "1hour"} => req[r].start = None

\* get_elections ran with the token "latest" after the clock moved, and the
\* election two hours before the initial clock is no longer listed
C6_Witness ==
  \E r \in DOMAIN req :
    /\ Finished(r, "get_elections")
    /\ req[r].range = "latest"
    /\ req[r].now = Some(Now0 + 1)
    /\ req[r].start = Some(Now0 - 1)
    /\ Len(req[r].response.body) = 1

\* C7: a get_prices answer other than 404 lists exactly the bazaar rows of
\* item_id with start <= timestamp <= now (start = now - the duration of the
\* token; no lower bound for "all" and for a token parse_range does not
\* know), each row once, in non-decreasing order of timestamp.
C7_PricesExactWindow ==
  \A r \in DOMAIN req :
    (Finished(r, "get_prices") /\ req[r].response.status # 404) =>
      LET body == req[r].response.body
          hits == SelectSeq(db.bazaar,
                    LAMBDA row : InWindow(row, req[r].item_id, req[r].range, req[r].now[1]))
      IN  /\ req[r].response.status = 200
          /\ BagOf(body) =
               BagOf([i \in DOMAIN hits |->
                        [timestamp |-> <<hits[i].timestamp \div 24, hits[i].timestamp % 24>>,
                         data |-> hits[i].data]])
          /\ \A k \in 1..(Len(body) - 1) : IsoLeq(body[k].timestamp, body[k + 1].timestamp)

\* a row exactly on the lower edge of the window is listed, and the other row
\* of the table (too old, ahead of the clock, or of another product) is not
C7_Witness ==
  \E r \in DOMAIN req :
    /\ Finished(r, "get_prices")
    /\ req[r].response.status = 200
    /\ req[r].range = "1day"
    /\ Len(db.bazaar) = 2
    /\ Len(req[r].response.body) = 1
    /\ req[r].response.body[1].timestamp = <<(req[r].now[1] - 24) \div 24, (req[r].now[1] - 24) % 24>>

\* C8: get_prices answers 404, with a message that names item_id, exactly
\* when no bazaar row of item_id lies in the window; otherwise it answers 200
\* with a list that is not empty.
C8_NotFoundIffEmpty ==
  \A r \in DOMAIN req :
    Finished(r, "get_prices") =>
      LET none == ~ \E i \in DOMAIN db.bazaar :
                      InWindow(db.bazaar[i], req[r].item_id, req[r].range, req[r].now[1])
      IN  /\ none => /\ req[r].response.status = 404
                     /\ req[r].response.detail = <<"No bazaar data for item", req[r].item_id>>
          /\ ~none => /\ req[r].response.status = 200
                      /\ req[r].response.body # <<>>

\* the item has a row, but none in the two-hour window: 404
C8_Witness ==
  \E r \in DOMAIN req :
    /\ Finished(r, "get_prices")
    /\ req[r].item_id = "I01"
    /\ req[r].range = "latest"
    /\ \E i \in DOMAIN db.bazaar : db.bazaar[i].product_id = "I01"
    /\ req[r].response.status = 404

\* C9 as stated: list_items returns, sorted ascending and each once, the ids
\* that have a row in the bazaar, auctions_sold, auctions_lb or firesales
\* table.
C9_ItemsOfAllTables ==
  \A r \in DOMAIN req :
    Finished(r, "list_items") /\ req[r].response.status = 200 =>
      LET body == req[r].response.body
      IN  /\ Range(body) = {db.bazaar[i].product_id : i \in DOMAIN db.bazaar}
                             \cup db.auctions_sold \cup db.auctions_lb \cup db.firesales
          /\ \A k \in 1..(Len(body) - 1) : StrLess(body[k], body[k + 1])

\* C10 as stated: once main.py is loaded, the application `app` names has the
\* routes of all five handlers and the CORS middleware for GET and OPTIONS.
C10_ServedAppComplete ==
  loaded = Len(ModuleStmts) =>
    /\ module.app \in DOMAIN module.apps
    /\ \A h \in {"get_prices", "get_bazaar_sold", "get_top", "get_elections", "list_items"} :
         \E rt \in module.apps[module.app].routes : rt.handler = h
    /\ {rt.path : rt \in module.apps[module.app].routes} = Paths
    /\ [cls |-> "CORSMiddleware", allow_methods |-> {"GET", "OPTIONS"}]
         \in module.apps[module.app].middleware

====
